---- MODULE Spec2Model ----
(***************************************************************************)
(* A model of docxml: the Docx bundle (Docx.ts), the XmlFile archive       *)
(* writer (classes/XmlFile.ts) and the DOTX template (DotxTemplate).       *)
(***************************************************************************)
EXTENDS Integers, Sequences, FiniteSets, TLC

(***************************************************************************)
(* Bounds of the model.                                                    *)
(***************************************************************************)
MaxRules == 2

(***************************************************************************)
(* enums.ts: locations and content types.                                  *)
(***************************************************************************)
FileLocation ==
    [contentTypes |-> "[Content_Types].xml",
     relationships |-> "_rels/.rels",
     coreProperties |-> "docProps/core.xml",
     mainDocument |-> "word/document.xml",
     styles |-> "word/styles.xml"]

FileMime ==
    [rels |-> "application/vnd.openxmlformats-package.relationships+xml",
     xml |-> "application/xml",
     coreProperties |-> "application/vnd.openxmlformats-package.core-properties+xml",
     mainDocument |-> "application/vnd.openxmlformats-officedocument.wordprocessingml.document.main+xml",
     styles |-> "application/vnd.openxmlformats-officedocument.wordprocessingml.styles+xml",
     jpeg |-> "image/jpeg",
     png |-> "image/png"]

(***************************************************************************)
(* The Parts a bundle of the model can hold. docNew is the OfficeDocument  *)
(* the constructor creates, docGet the one the getter's factory would      *)
(* create, docArc the one read from an archive. cls is the Part's class.   *)
(***************************************************************************)
PartTable ==
    [rootRels |-> [location |-> FileLocation.relationships, contentType |-> FileMime.rels, cls |-> "Relationships"],
     docNew |-> [location |-> FileLocation.mainDocument, contentType |-> FileMime.mainDocument, cls |-> "OfficeDocument"],
     docGet |-> [location |-> FileLocation.mainDocument, contentType |-> FileMime.mainDocument, cls |-> "OfficeDocument"],
     docArc |-> [location |-> FileLocation.mainDocument, contentType |-> FileMime.mainDocument, cls |-> "OfficeDocument"],
     docNewRels |-> [location |-> "word/_rels/document.xml.rels", contentType |-> FileMime.rels, cls |-> "Relationships"],
     docGetRels |-> [location |-> "word/_rels/document.xml.rels", contentType |-> FileMime.rels, cls |-> "Relationships"],
     docArcRels |-> [location |-> "word/_rels/document.xml.rels", contentType |-> FileMime.rels, cls |-> "Relationships"],
     stylesPart |-> [location |-> FileLocation.styles, contentType |-> FileMime.styles, cls |-> "Styles"],
     core |-> [location |-> FileLocation.coreProperties, contentType |-> FileMime.coreProperties, cls |-> "CoreProperties"],
     img1 |-> [location |-> "word/media/img1.png", contentType |-> FileMime.png, cls |-> "BinaryFile"],
     img2 |-> [location |-> "word/media/img2.jpeg", contentType |-> FileMime.jpeg, cls |-> "BinaryFile"]]

\* The owners of a relationship index, and the index Part of each.
Owners == {"root", "docNew", "docGet", "docArc"}

RelsPartOf ==
    [root |-> "rootRels", docNew |-> "docNewRels", docGet |-> "docGetRels", docArc |-> "docArcRels"]

RelationshipType ==
    [officeDocument |-> "officeDocument", styles |-> "styles", image |-> "image",
     coreProperties |-> "coreProperties"]

NoEdges == [o \in Owners |-> <<>>]

(***************************************************************************)
(* Components. A component has props.style ("" when absent), children      *)
(* (component names or strings) and, for an Image, the binary Part it      *)
(* embeds. A child that is no component name is a string.                  *)
(***************************************************************************)
Comp ==
    [Txt |-> [t |-> "Text", style |-> "", part |-> "", kids |-> <<"hello">>],
     Img1 |-> [t |-> "Image", style |-> "", part |-> "img1", kids |-> <<>>],
     Img2 |-> [t |-> "Image", style |-> "", part |-> "img2", kids |-> <<>>],
     RunImg |-> [t |-> "Text", style |-> "Emphasis", part |-> "", kids |-> <<"Img1">>],
     ParaS |-> [t |-> "Paragraph", style |-> "Heading1", part |-> "", kids |-> <<"Txt">>],
     ParaImg |-> [t |-> "Paragraph", style |-> "", part |-> "", kids |-> <<"hello", "RunImg", "Img2">>],
     Sect |-> [t |-> "Section", style |-> "", part |-> "", kids |-> <<"ParaS", "ParaImg">>]]

ComponentNames == DOMAIN Comp

IsString(c) == c \notin ComponentNames

(***************************************************************************)
(* Relationships (files/Relationships.ts).                                 *)
(***************************************************************************)
HasType(edges, type) == \E i \in 1..Len(edges) : edges[i].type = type

Add(edges, type, target) ==
    Append(edges, [id |-> Len(edges) + 1, type |-> type, target |-> target])

FirstOfType(edges, type) ==
    edges[CHOOSE i \in 1..Len(edges) :
            /\ edges[i].type = type
            /\ \A j \in 1..(i - 1) : edges[j].type # type]

\* ensureRelationship(type, factory): the edges afterwards, and the target returned.
EnsureRelationshipEdges(edges, type, made) ==
    IF HasType(edges, type) THEN edges ELSE Add(edges, type, made)

EnsureRelationshipTarget(edges, type, made) ==
    IF HasType(edges, type) THEN FirstOfType(edges, type).target ELSE made

\* Image.ensureRelationship(relationships): the image's edge, created if missing.
ImageEnsureRelationship(edges, part) ==
    IF \E i \in 1..Len(edges) : edges[i].target = part
    THEN edges
    ELSE Add(edges, RelationshipType.image, part)

RECURSIVE RelatedOfEdges(_, _, _)
RECURSIVE GetRelated(_, _)
\* Relationships.getRelated(): the index itself, then every Part its edges reach.
GetRelated(r, owner) == <<RelsPartOf[owner]>> \o RelatedOfEdges(r, r[owner], 1)

RelatedOfEdges(r, edges, i) ==
    IF i > Len(edges) THEN <<>>
    ELSE LET p == edges[i].target
         IN  <<p>> \o (IF p \in Owners THEN GetRelated(r, p) ELSE <<>>)
                   \o RelatedOfEdges(r, edges, i + 1)

Range(s) == {s[i] : i \in 1..Len(s)}

(***************************************************************************)
(* ContentTypes (files/ContentTypes.ts): overrides are {path, mime},       *)
(* unique per path.                                                        *)
(***************************************************************************)
AddOverride(ov, path, mime) == {o \in ov : o[1] # path} \cup {<<path, mime>>}

RECURSIVE AddOverrides(_, _)
AddOverrides(ov, parts) ==
    IF parts = <<>> THEN ov
    ELSE AddOverrides(AddOverride(ov, PartTable[Head(parts)].location,
                                  PartTable[Head(parts)].contentType),
                      Tail(parts))

(***************************************************************************)
(* Rule results (RuleResult = Component | string | null | Array): a node   *)
(* is [k, v, c], k its kind, v the component name or the text, c the       *)
(* members of an array.                                                    *)
(***************************************************************************)
Null == [k |-> "null", v |-> "", c |-> <<>>]

Str(s) == [k |-> "string", v |-> s, c |-> <<>>]

Cmp(n) == [k |-> "component", v |-> n, c |-> <<>>]

Arr(members) == [k |-> "array", v |-> "", c |-> members]

\* [null, "a", [["b"], null, "c"]]
ExampleAst == Arr(<<Null, Str("a"), Arr(<<Arr(<<Str("b")>>), Null, Str("c")>>)>>)

RECURSIVE flatten(_, _)
RECURSIVE Reduce(_, _)
\* A reducer that splices a nested array in front of what was collected.
flattenPrepending(flat, child) ==
    IF child.k = "null" \/ child.k = "string" THEN flat
    ELSE IF child.k = "array" THEN Reduce(child.c, <<>>) \o flat
    ELSE Append(flat, child)

\* The reducer of Docx.fromXml.
flatten(flat, child) ==
    IF child.k = "null" \/ child.k = "string" THEN flat
    ELSE IF child.k = "array" THEN flat \o Reduce(child.c, <<>>)
    ELSE Append(flat, child)

\* Array.prototype.reduce(flatten, init)
Reduce(arr, init) ==
    IF arr = <<>> THEN init ELSE Reduce(Tail(arr), flatten(init, Head(arr)))

\* (Array.isArray(ast) ? ast : [ast]).reduce(flatten, [])
FlattenAst(ast) == Reduce(IF ast.k = "array" THEN ast.c ELSE <<ast>>, <<>>)

ComponentNamesOf(flat) == [i \in 1..Len(flat) |-> flat[i].v]

(***************************************************************************)
(* The pre-pass walk of Docx.toArchive: the components visited, pre-order. *)
(***************************************************************************)
RECURSIVE Walk(_)
Walk(cs) ==
    IF cs = <<>> THEN <<>>
    ELSE (IF IsString(Head(cs)) THEN <<>>
          ELSE <<Head(cs)>> \o Walk(Comp[Head(cs)].kids))
         \o Walk(Tail(cs))

\* styles.ensureStyle(styleName) for every visited component with a style prop.
WalkEnsureStyles(st, visited) ==
    st \cup {Comp[visited[i]].style : i \in {j \in 1..Len(visited) : Comp[visited[j]].style # ""}}

\* component.ensureRelationship(relationships) for every visited Image.
RECURSIVE WalkEnsureImages(_, _)
WalkEnsureImages(edges, visited) ==
    IF visited = <<>> THEN edges
    ELSE WalkEnsureImages(
            IF Comp[Head(visited)].t = "Image"
            THEN ImageEnsureRelationship(edges, Comp[Head(visited)].part)
            ELSE edges,
            Tail(visited))

(***************************************************************************)
(* State.                                                                  *)
(*   Docx: docx ("none" until an instance is constructed), contentTypes    *)
(*   (the overrides), relationships (edges per owner), _officeDocument     *)
(*   (the getter's cache), _renderer (the rules, in registration order),   *)
(*   children and styles of the office document.                           *)
(*   toArchive in progress: tpc (steps done), steps, archive, collected.   *)
(*   History: err (what the last call threw), lastOp, lastDoc (what the    *)
(*   document getter last returned), odAdded (officeDocument edges this    *)
(*   instance created), origin (what it was constructed from).             *)
(***************************************************************************)
VARIABLES docx, contentTypes, relationships, _officeDocument, _renderer,
          children, styles, tpc, steps, archive, collected,
          err, lastOp, lastDoc, odAdded, origin

docxVars ==
    <<docx, contentTypes, relationships, _officeDocument, _renderer,
      children, styles, tpc, steps, archive, collected,
      err, lastOp, lastDoc, odAdded, origin>>

(***************************************************************************)
(* State of the other components.                                          *)
(*   Flattening (Docx.fromXml's reducer on its own): stack, the members of *)
(*   the render result being put together; nodes, how many nodes it has;   *)
(*   ast, the render result handed to the reducer; flat, what the reducer  *)
(*   returned; fdone, whether it ran.                                      *)
(*   XmlFile.addToArchive: related (getRelated()), callback (the state of  *)
(*   each member's async callback), write (the state of each member's      *)
(*   write), entries (the members the archive holds), promise (the         *)
(*   promise addToArchive returned).                                       *)
(*   DotxTemplate: template (the file behind location), _zip,              *)
(*   availableStyleNames, templateStyles (the styles map), calls (the      *)
(*   init() calls made and where each stands), reads (readZip calls        *)
(*   issued), styleResult (what the last style() call did).                *)
(***************************************************************************)
VARIABLES stack, nodes, ast, flat, fdone

flattenVars == <<stack, nodes, ast, flat, fdone>>

VARIABLES related, callback, write, entries, promise

xmlFileVars == <<related, callback, write, entries, promise>>

VARIABLES template, _zip, availableStyleNames, templateStyles, calls, reads, styleResult

dotxVars == <<template, _zip, availableStyleNames, templateStyles, calls, reads, styleResult>>

VARIABLES breakProps, breakChildren, breakAncestry, breakNode, breakResult, bpc

breakVars == <<breakProps, breakChildren, breakAncestry, breakNode, breakResult, bpc>>

VARIABLES tblProps, tblNode, tblResult, tblPc

tblVars == <<tblProps, tblNode, tblResult, tblPc>>

VARIABLES instances, rendererHeap, partsHeap, cloneOp

cloneVars == <<instances, rendererHeap, partsHeap, cloneOp>>

vars == <<docxVars, flattenVars, xmlFileVars, dotxVars, breakVars, tblVars, cloneVars>>

\* A step of Docx leaves the other components alone.
DocxOnly == UNCHANGED <<flattenVars, xmlFileVars, dotxVars, breakVars, tblVars, cloneVars>>

NoError == [code |-> "none", n |-> 0]

\* `Found ${roots.length} root elements, but exactly 1 expected. ...`
RootCountError(n) == [code |-> "RootCount", n |-> n]

\* 'No XML transformation rules were configured, ...'
NoRulesError == [code |-> "NoRules", n |-> 0]

Op(name, n, rendered) == [op |-> name, n |-> n, rendered |-> rendered]

EmptyArchive == [paths |-> {}, rels |-> NoEdges, ct |-> {}, ctWritten |-> FALSE]

DocxInit ==
    /\ docx = "none"
    /\ contentTypes = {}
    /\ relationships = NoEdges
    /\ _officeDocument = "null"
    /\ _renderer = <<>>
    /\ children = <<>>
    /\ styles = {}
    /\ tpc = 0
    /\ steps = <<>>
    /\ archive = EmptyArchive
    /\ collected = <<>>
    /\ err = NoError
    /\ lastOp = Op("none", 0, FALSE)
    /\ lastDoc = "null"
    /\ odAdded = 0
    /\ origin = "none"

(***************************************************************************)
(* Archives a Docx can be read from: one with an officeDocument            *)
(* relationship, one without.                                              *)
(***************************************************************************)
ArchiveInputs ==
    {[name |-> "withDocument",
      ct |-> {<<FileLocation.mainDocument, FileMime.mainDocument>>,
              <<FileLocation.coreProperties, FileMime.coreProperties>>,
              <<FileLocation.styles, FileMime.styles>>},
      rels |-> [NoEdges EXCEPT
                  !["root"] = <<[id |-> 1, type |-> RelationshipType.coreProperties, target |-> "core"],
                                [id |-> 2, type |-> RelationshipType.officeDocument, target |-> "docArc"]>>,
                  !["docArc"] = <<[id |-> 1, type |-> RelationshipType.styles, target |-> "stylesPart"]>>],
      children |-> <<"ParaS">>,
      styles |-> {"Heading1"}],
     [name |-> "withoutDocument",
      ct |-> {<<FileLocation.coreProperties, FileMime.coreProperties>>},
      rels |-> [NoEdges EXCEPT
                  !["root"] = <<[id |-> 1, type |-> RelationshipType.coreProperties, target |-> "core"]>>],
      children |-> <<>>,
      styles |-> {}]}

\* The roots handed to Docx.fromJsx.
RootInputs == {<<>>, <<"Sect">>, <<"ParaImg">>, <<"ParaS", "ParaImg">>}

\* What the renderer returns to Docx.fromXml.
AstInputs ==
    {Null,
     Cmp("Sect"),
     ExampleAst,
     Arr(<<Null, Cmp("ParaImg"), Str("a")>>),
     Arr(<<Cmp("ParaS"), Arr(<<Null, Arr(<<Cmp("ParaImg")>>)>>)>>)}

\* The XPath tests handed to Docx.withXmlRule.
TestInputs == {"self::node()", "self::p"}

(***************************************************************************)
(* Docx: constructor and the document getter.                              *)
(***************************************************************************)
\* A constructor that adds the office document whatever the relationships hold.
ConstructorAlwaysAdds(rels) == TRUE

\* if (!this.relationships.hasType(RelationshipType.officeDocument))
ConstructorNeedsDocument(rels) == ~HasType(rels["root"], RelationshipType.officeDocument)

\* The relationships the constructor leaves.
ConstructorRelationships(rels) ==
    IF ConstructorNeedsDocument(rels)
    THEN [rels EXCEPT !["root"] = Add(@, RelationshipType.officeDocument, "docNew")]
    ELSE rels

ConstructorAdded(rels) == IF ConstructorNeedsDocument(rels) THEN 1 ELSE 0

\* get document(): the value returned, the relationships afterwards, and how
\* many times the factory ran.
DocumentValue(cache, rels) ==
    IF cache = "null"
    THEN EnsureRelationshipTarget(rels["root"], RelationshipType.officeDocument, "docGet")
    ELSE cache

DocumentRelationships(cache, rels) ==
    IF cache = "null"
    THEN [rels EXCEPT !["root"] =
            EnsureRelationshipEdges(@, RelationshipType.officeDocument, "docGet")]
    ELSE rels

DocumentFactoryRuns(cache, rels) ==
    IF cache = "null" /\ ~HasType(rels["root"], RelationshipType.officeDocument)
    THEN 1 ELSE 0

\* OfficeDocument.set(): the body is replaced wholesale.
OfficeDocumentSet(body) == body

Idle == docx = "live" /\ tpc = 0

\* Docx.fromNothing()
FromNothing ==
    /\ DocxOnly
    /\ docx = "none"
    /\ docx' = "live"
    /\ contentTypes' = {}
    /\ relationships' = ConstructorRelationships(NoEdges)
    /\ odAdded' = ConstructorAdded(NoEdges)
    /\ _renderer' = <<>>
    /\ _officeDocument' = "null"
    /\ children' = <<>>
    /\ styles' = {}
    /\ origin' = "nothing"
    /\ err' = NoError
    /\ lastOp' = Op("fromNothing", 0, FALSE)
    /\ UNCHANGED <<tpc, steps, archive, collected, lastDoc>>

\* Docx.fromJsx(roots)
FromJsx(roots) ==
    /\ DocxOnly
    /\ docx = "none"
    /\ lastOp' = Op("fromJsx", Len(roots), FALSE)
    /\ IF Len(roots) # 1
       THEN /\ err' = RootCountError(Len(roots))
            /\ UNCHANGED <<docx, contentTypes, relationships, _officeDocument, _renderer,
                           children, styles, lastDoc, odAdded, origin>>
       ELSE LET built == ConstructorRelationships(NoEdges)
            IN  /\ docx' = "live"
                /\ contentTypes' = {}
                /\ _renderer' = <<>>
                /\ styles' = {}
                /\ origin' = "jsx"
                /\ _officeDocument' = DocumentValue("null", built)
                /\ lastDoc' = DocumentValue("null", built)
                /\ relationships' = DocumentRelationships("null", built)
                /\ odAdded' = ConstructorAdded(NoEdges) + DocumentFactoryRuns("null", built)
                /\ children' = OfficeDocumentSet(<<roots[1]>>)
                /\ err' = NoError
    /\ UNCHANGED <<tpc, steps, archive, collected>>

\* Docx.fromArchive(archive)
FromArchive(a) ==
    /\ DocxOnly
    /\ docx = "none"
    /\ docx' = "live"
    /\ contentTypes' = a.ct
    /\ relationships' = ConstructorRelationships(a.rels)
    /\ odAdded' = ConstructorAdded(a.rels)
    /\ _renderer' = <<>>
    /\ _officeDocument' = "null"
    /\ children' = a.children
    /\ styles' = a.styles
    /\ origin' = a.name
    /\ err' = NoError
    /\ lastOp' = Op("fromArchive", 0, FALSE)
    /\ UNCHANGED <<tpc, steps, archive, collected, lastDoc>>

\* An access to the document getter from outside.
GetDocument ==
    /\ DocxOnly
    /\ Idle
    /\ _officeDocument' = DocumentValue(_officeDocument, relationships)
    /\ lastDoc' = DocumentValue(_officeDocument, relationships)
    /\ relationships' = DocumentRelationships(_officeDocument, relationships)
    /\ odAdded' = odAdded + DocumentFactoryRuns(_officeDocument, relationships)
    /\ err' = NoError
    /\ lastOp' = Op("document", 0, FALSE)
    /\ UNCHANGED <<docx, contentTypes, _renderer, children, styles, tpc, steps,
                   archive, collected, origin>>

(***************************************************************************)
(* Docx.withXmlRule and Docx.fromXml.                                      *)
(***************************************************************************)
\* Docx.withXmlRule(xPathTest, transformer)
WithXmlRule(test) ==
    /\ DocxOnly
    /\ Idle
    /\ Len(_renderer) < MaxRules
    /\ _renderer' = Append(_renderer, test)
    /\ err' = NoError
    /\ lastOp' = Op("withXmlRule", 0, FALSE)
    /\ UNCHANGED <<docx, contentTypes, relationships, _officeDocument, children, styles,
                   tpc, steps, archive, collected, lastDoc, odAdded, origin>>

\* A guard that asks for more than one rule.
FewerThanTwoRules(renderer) == Len(renderer) <= 1

\* if (!this._renderer.length)
NoRulesConfigured(renderer) == Len(renderer) = 0

\* Docx.fromXml(xml, props); ast is what this._renderer.render(...) returns.
FromXml(result) ==
    /\ DocxOnly
    /\ Idle
    /\ IF NoRulesConfigured(_renderer)
       THEN /\ err' = NoRulesError
            /\ lastOp' = Op("fromXml", 0, FALSE)
            /\ UNCHANGED <<relationships, _officeDocument, children, lastDoc, odAdded>>
       ELSE /\ _officeDocument' = DocumentValue(_officeDocument, relationships)
            /\ lastDoc' = DocumentValue(_officeDocument, relationships)
            /\ relationships' = DocumentRelationships(_officeDocument, relationships)
            /\ odAdded' = odAdded + DocumentFactoryRuns(_officeDocument, relationships)
            /\ children' = OfficeDocumentSet(ComponentNamesOf(FlattenAst(result)))
            /\ err' = NoError
            /\ lastOp' = Op("fromXml", Len(FlattenAst(result)), TRUE)
    /\ UNCHANGED <<docx, contentTypes, _renderer, styles, tpc, steps, archive,
                   collected, origin>>

(***************************************************************************)
(* Docx.toArchive. The method is synchronous: once begun, nothing else     *)
(* runs on the instance until it has returned. Its four statements are     *)
(* taken one at a time, in the order of ToArchiveOrder.                    *)
(***************************************************************************)
\* An assembly that writes the relationships before walking the body.
ToArchiveRelationshipsFirst == <<"relationships", "prepass", "overrides", "contentTypes">>

\* The statements of toArchive in source order.
ToArchiveOrder == <<"prepass", "relationships", "overrides", "contentTypes">>

StepEnabled(s) ==
    /\ docx = "live"
    /\ tpc < Len(ToArchiveOrder)
    /\ ToArchiveOrder[tpc + 1] = s

\* What a step leaves of a per-call value it does not write itself.
Carried(x, fresh) == IF tpc = 0 THEN fresh ELSE x

Advance(s) ==
    /\ steps' = Append(Carried(steps, <<>>), s)
    /\ IF tpc + 1 = Len(ToArchiveOrder)
       THEN tpc' = 0 /\ lastOp' = Op("toArchive", 0, FALSE)
       ELSE tpc' = tpc + 1 /\ lastOp' = lastOp
    /\ err' = NoError

\* A filter that lets every related Part through.
OverrideEveryRelated(p) == TRUE

\* .filter((related) => !(related instanceof Relationships))
OverrideCandidate(p) == PartTable[p].cls # "Relationships"

\* Lines 95-112: this.document.styles, this.document.relationships, the walk.
ToArchivePrepass ==
    /\ DocxOnly
    /\ StepEnabled("prepass")
    /\ LET doc == DocumentValue(_officeDocument, relationships)
           rels1 == DocumentRelationships(_officeDocument, relationships)
           rels2 == [rels1 EXCEPT ![doc] =
                        EnsureRelationshipEdges(@, RelationshipType.styles, "stylesPart")]
           visited == Walk(children)
       IN  /\ _officeDocument' = doc
           /\ lastDoc' = doc
           /\ odAdded' = odAdded + DocumentFactoryRuns(_officeDocument, relationships)
           /\ styles' = WalkEnsureStyles(styles, visited)
           /\ relationships' = [rels2 EXCEPT ![doc] = WalkEnsureImages(@, visited)]
    /\ archive' = Carried(archive, EmptyArchive)
    /\ collected' = Carried(collected, <<>>)
    /\ Advance("prepass")
    /\ UNCHANGED <<docx, contentTypes, _renderer, children, origin>>

\* Lines 114-116: new ZipArchive(); this.relationships.toArchive(archive).
ToArchiveRelationships ==
    /\ DocxOnly
    /\ StepEnabled("relationships")
    /\ archive' = [paths |-> {PartTable[p].location :
                                p \in Range(GetRelated(relationships, "root"))},
                   rels |-> relationships,
                   ct |-> {},
                   ctWritten |-> FALSE]
    /\ collected' = Carried(collected, <<>>)
    /\ Advance("relationships")
    /\ UNCHANGED <<docx, contentTypes, relationships, _officeDocument, _renderer,
                   children, styles, lastDoc, odAdded, origin>>

\* Lines 120-125: an override for every related Part that passes the filter.
ToArchiveOverrides ==
    /\ DocxOnly
    /\ StepEnabled("overrides")
    /\ LET passed == SelectSeq(GetRelated(relationships, "root"), OverrideCandidate)
       IN  /\ contentTypes' = AddOverrides(contentTypes, passed)
           /\ collected' = passed
    /\ archive' = Carried(archive, EmptyArchive)
    /\ Advance("overrides")
    /\ UNCHANGED <<docx, relationships, _officeDocument, _renderer, children, styles,
                   lastDoc, odAdded, origin>>

\* Lines 127-128: this.contentTypes.toArchive(archive); return archive.
ToArchiveContentTypes ==
    /\ DocxOnly
    /\ StepEnabled("contentTypes")
    /\ archive' = [Carried(archive, EmptyArchive) EXCEPT
                     !.paths = @ \cup {FileLocation.contentTypes},
                     !.ct = contentTypes,
                     !.ctWritten = TRUE]
    /\ collected' = Carried(collected, <<>>)
    /\ Advance("contentTypes")
    /\ UNCHANGED <<docx, contentTypes, relationships, _officeDocument, _renderer,
                   children, styles, lastDoc, odAdded, origin>>

DocxNext ==
    \/ FromNothing
    \/ \E roots \in RootInputs : FromJsx(roots)
    \/ \E a \in ArchiveInputs : FromArchive(a)
    \/ GetDocument
    \/ \E test \in TestInputs : WithXmlRule(test)
    \/ \E result \in AstInputs : FromXml(result)
    \/ ToArchivePrepass
    \/ ToArchiveRelationships
    \/ ToArchiveOverrides
    \/ ToArchiveContentTypes


(***************************************************************************)
(* The reducer of Docx.fromXml on its own. A render result is put together *)
(* bottom-up: Push adds a leaf to the members, Wrap turns the last k       *)
(* members into a nested array; FlattenCall hands the result to the        *)
(* reducer, as the array of the members or as the only member itself.      *)
(***************************************************************************)
MaxNodes == 5

Leaves == {Null, Str("a"), Cmp("ParaS"), Cmp("ParaImg")}

FlattenIdle ==
    /\ stack = <<>>
    /\ nodes = 0
    /\ ast = Null
    /\ flat = <<>>
    /\ fdone = FALSE

FlattenInit ==
    /\ \/ stack = <<>> /\ nodes = 0
       \/ stack = ExampleAst.c /\ nodes = MaxNodes
    /\ ast = Null
    /\ flat = <<>>
    /\ fdone = FALSE

FlattenOnly == UNCHANGED <<docxVars, xmlFileVars, dotxVars, breakVars, tblVars, cloneVars>>

Push(leaf) ==
    /\ FlattenOnly
    /\ ~fdone
    /\ nodes < MaxNodes
    /\ stack' = Append(stack, leaf)
    /\ nodes' = nodes + 1
    /\ UNCHANGED <<ast, flat, fdone>>

Wrap(k) ==
    /\ FlattenOnly
    /\ ~fdone
    /\ nodes < MaxNodes
    /\ k <= Len(stack)
    /\ stack' = Append(SubSeq(stack, 1, Len(stack) - k),
                       Arr(SubSeq(stack, Len(stack) - k + 1, Len(stack))))
    /\ nodes' = nodes + 1
    /\ UNCHANGED <<ast, flat, fdone>>

FlattenCall(whole) ==
    /\ FlattenOnly
    /\ ~fdone
    /\ whole \/ Len(stack) = 1
    /\ ast' = (IF whole THEN Arr(stack) ELSE stack[1])
    /\ flat' = FlattenAst(IF whole THEN Arr(stack) ELSE stack[1])
    /\ fdone' = TRUE
    /\ UNCHANGED <<stack, nodes>>

FlattenNext ==
    \/ \E leaf \in Leaves : Push(leaf)
    \/ \E k \in 0..MaxNodes : Wrap(k)
    \/ \E whole \in BOOLEAN : FlattenCall(whole)

(***************************************************************************)
(* XmlFile.addToArchive (classes/XmlFile.ts). A member of getRelated() is  *)
(* [kind, empty, mode]: kind "xml" (an XmlFile) or "binary" (a             *)
(* BinaryFile), empty what its isEmpty() returns, mode what writing it     *)
(* does. For an XmlFile: toNode() gives a document ("ok"), throws          *)
(* ("throws") or rejects ("rejects"). For a BinaryFile: its addToArchive   *)
(* has written when it returns ("sync"), writes later ("async"), or        *)
(* throws ("throws").                                                      *)
(***************************************************************************)
MaxRelated == 2

XmlMembers == [kind : {"xml"}, empty : BOOLEAN, mode : {"ok", "throws", "rejects"}]

BinaryMembers == [kind : {"binary"}, empty : BOOLEAN, mode : {"sync", "async", "throws"}]

\* What getRelated() can return: the file itself, then the Parts related to it.
RelatedInputs ==
    UNION {{<<self>> \o rest : self \in XmlMembers,
                               rest \in [1..n -> XmlMembers \cup BinaryMembers]} :
           n \in 0..(MaxRelated - 1)}

XmlFileIdle ==
    /\ related = <<>>
    /\ callback = <<>>
    /\ write = <<>>
    /\ entries = {}
    /\ promise = "none"

XmlFileOnly == UNCHANGED <<docxVars, flattenVars, dotxVars, breakVars, tblVars, cloneVars>>

\* The callback of .map(async (related) => ...) up to its first suspension.
CallbackStart(m) ==
    IF m.kind = "xml"
    THEN (IF m.mode = "throws" THEN "rejected" ELSE "awaiting")
    ELSE (IF m.mode = "throws" THEN "rejected" ELSE "resolved")

WriteStart(m) ==
    IF m.kind = "xml"
    THEN (IF m.mode = "throws" THEN "failed" ELSE "none")
    ELSE (IF m.mode = "throws" THEN "failed"
          ELSE IF m.mode = "sync" THEN "done" ELSE "pending")

\* addToArchive(archive): getRelated() is mapped, every callback runs to its
\* first await, and the Promise.all of the callbacks is awaited.
AddToArchive(rel) ==
    /\ XmlFileOnly
    /\ promise = "none"
    /\ related' = rel
    /\ callback' = [i \in 1..Len(rel) |-> CallbackStart(rel[i])]
    /\ write' = [i \in 1..Len(rel) |-> WriteStart(rel[i])]
    /\ entries' = {i \in 1..Len(rel) : WriteStart(rel[i]) = "done"}
    /\ promise' = "pending"

\* await related.toNode() resumes: archive.addXmlFile(...), or the rejection.
XmlResume(i) ==
    /\ XmlFileOnly
    /\ i \in 1..Len(related)
    /\ callback[i] = "awaiting"
    /\ IF related[i].mode = "ok"
       THEN /\ callback' = [callback EXCEPT ![i] = "resolved"]
            /\ write' = [write EXCEPT ![i] = "done"]
            /\ entries' = entries \cup {i}
       ELSE /\ callback' = [callback EXCEPT ![i] = "rejected"]
            /\ write' = [write EXCEPT ![i] = "failed"]
            /\ entries' = entries
    /\ UNCHANGED <<related, promise>>

\* The write a BinaryFile's addToArchive left running ends.
BinarySettle(i, ok) ==
    /\ XmlFileOnly
    /\ i \in 1..Len(related)
    /\ write[i] = "pending"
    /\ write' = [write EXCEPT ![i] = IF ok THEN "done" ELSE "failed"]
    /\ entries' = IF ok THEN entries \cup {i} ELSE entries
    /\ UNCHANGED <<related, callback, promise>>

\* Promise.all settles: rejected with the first rejection, resolved when every
\* callback has resolved.
PromiseSettle ==
    /\ XmlFileOnly
    /\ promise = "pending"
    /\ \/ /\ \E i \in 1..Len(related) : callback[i] = "rejected"
          /\ promise' = "rejected"
       \/ /\ \A i \in 1..Len(related) : callback[i] = "resolved"
          /\ promise' = "resolved"
    /\ UNCHANGED <<related, callback, write, entries>>

XmlFileNext ==
    \/ \E rel \in RelatedInputs : AddToArchive(rel)
    \/ \E i \in 1..MaxRelated : XmlResume(i)
    \/ \E i \in 1..MaxRelated, ok \in BOOLEAN : BinarySettle(i, ok)
    \/ PromiseSettle

(***************************************************************************)
(* DotxTemplate. The file behind location holds the style names of         *)
(* word/styles.xml (hasStyles: whether that entry exists); a readZip of it *)
(* may succeed or fail each time. An init() call stands at "reading"       *)
(* (awaiting the readZip it issued), "ready" (holding the zip, awaiting    *)
(* the entry's text), "done", "failedRead" (readZip rejected) or           *)
(* "failedFile" (the entry could not be read).                             *)
(***************************************************************************)
MaxCalls == 2

TemplateInputs ==
    [names : {<<>>, <<"Normal">>, <<"Normal", "Title">>}, hasStyles : BOOLEAN]

StyleNameInputs == {"Normal", "Title", "Custom"}

NullNames == [isNull |-> TRUE, names |-> <<>>]

NoStyleResult == [kind |-> "none", code |-> "", names |-> <<>>, name |-> "", inst |-> 0]

DotxIdle ==
    /\ template = [names |-> <<"Normal">>, hasStyles |-> TRUE]
    /\ _zip = "null"
    /\ availableStyleNames = NullNames
    /\ templateStyles = {}
    /\ calls = <<>>
    /\ reads = 0
    /\ styleResult = NoStyleResult

DotxInit ==
    /\ template \in TemplateInputs
    /\ _zip = "null"
    /\ availableStyleNames = NullNames
    /\ templateStyles = {}
    /\ calls = <<>>
    /\ reads = 0
    /\ styleResult = NoStyleResult

DotxOnly == UNCHANGED <<docxVars, flattenVars, xmlFileVars, breakVars, tblVars, cloneVars>>

\* init() up to its first suspension: file() awaits the zip getter, which
\* issues readZip(location) when nothing is cached.
InitCall ==
    /\ DotxOnly
    /\ Len(calls) < MaxCalls
    /\ IF _zip = "null"
       THEN calls' = Append(calls, "reading") /\ reads' = reads + 1
       ELSE calls' = Append(calls, "ready") /\ reads' = reads
    /\ UNCHANGED <<template, _zip, availableStyleNames, templateStyles, styleResult>>

\* .then((contents) => { this._zip = contents; return this._zip; })
ReadResolve(c) ==
    /\ DotxOnly
    /\ c \in 1..Len(calls)
    /\ calls[c] = "reading"
    /\ _zip' = "zip"
    /\ calls' = [calls EXCEPT ![c] = "ready"]
    /\ UNCHANGED <<template, availableStyleNames, templateStyles, reads, styleResult>>

\* .catch((error) => { error.message = `DXE004: ...`; throw error; })
ReadReject(c) ==
    /\ DotxOnly
    /\ c \in 1..Len(calls)
    /\ calls[c] = "reading"
    /\ calls' = [calls EXCEPT ![c] = "failedRead"]
    /\ UNCHANGED <<template, _zip, availableStyleNames, templateStyles, reads, styleResult>>

\* The entry's text arrives and init() sets availableStyleNames, or the
\* entry cannot be read and init() rejects.
InitFinish(c) ==
    /\ DotxOnly
    /\ c \in 1..Len(calls)
    /\ calls[c] = "ready"
    /\ IF template.hasStyles
       THEN /\ availableStyleNames' = [isNull |-> FALSE, names |-> template.names]
            /\ calls' = [calls EXCEPT ![c] = "done"]
       ELSE /\ availableStyleNames' = availableStyleNames
            /\ calls' = [calls EXCEPT ![c] = "failedFile"]
    /\ UNCHANGED <<template, _zip, templateStyles, reads, styleResult>>

\* if (!this.availableStyleNames)
StyleNotInitialised(available) == available.isNull

\* A check that takes every name to be available.
StyleNeverUnavailable(available, name) == FALSE

\* if (!this.availableStyleNames.includes(name))
StyleUnavailable(available, name) == name \notin Range(available.names)

\* this.styles.get(name): the cached instance, 0 when there is none.
StylesGet(cache, name) ==
    IF \E e \in cache : e.name = name
    THEN (CHOOSE e \in cache : e.name = name).inst
    ELSE 0

\* new DotxStyle(name): an instance no earlier call made.
NewDotxStyle(cache) == Cardinality(cache) + 1

\* style(name)
Style(name) ==
    /\ DotxOnly
    /\ IF StyleNotInitialised(availableStyleNames)
       THEN /\ styleResult' = [kind |-> "error", code |-> "DXE010", names |-> <<>>,
                               name |-> name, inst |-> 0]
            /\ templateStyles' = templateStyles
       ELSE IF StyleUnavailable(availableStyleNames, name)
       THEN /\ styleResult' = [kind |-> "error", code |-> "DXE011",
                               names |-> availableStyleNames.names,
                               name |-> name, inst |-> 0]
            /\ templateStyles' = templateStyles
       ELSE IF StylesGet(templateStyles, name) = 0
       THEN /\ styleResult' = [kind |-> "style", code |-> "", names |-> <<>>,
                               name |-> name, inst |-> NewDotxStyle(templateStyles)]
            /\ templateStyles' = templateStyles \cup
                    {[name |-> name, inst |-> NewDotxStyle(templateStyles)]}
       ELSE /\ styleResult' = [kind |-> "style", code |-> "", names |-> <<>>,
                               name |-> name, inst |-> StylesGet(templateStyles, name)]
            /\ templateStyles' = templateStyles
    /\ UNCHANGED <<template, _zip, availableStyleNames, calls, reads>>

DotxNext ==
    \/ InitCall
    \/ \E c \in 1..MaxCalls : ReadResolve(c)
    \/ \E c \in 1..MaxCalls : ReadReject(c)
    \/ \E c \in 1..MaxCalls : InitFinish(c)
    \/ \E name \in StyleNameInputs : Style(name)

(***************************************************************************)
(* Break (components/Break.ts): a w:br element with optional type and      *)
(* clear attributes.  A prop is "undefined" when its key is absent, "null" *)
(* when it is null, and otherwise the attribute's string.  An element is   *)
(* its nodeName and its two attributes, NoAttr where one is not present.   *)
(***************************************************************************)
QNS == [w |-> "w:"]

NoAttr == "#absent"

BreakTypes == {"page", "column", "textWrapping"}

BreakClears == {"left", "right", "all", "none"}

BreakPropsInputs ==
    [type : BreakTypes \cup {"undefined", "null"},
     clear : BreakClears \cup {"undefined", "null"}]

\* The ancestries toNode is called with; Break.toNode ignores its argument.
AncestryInputs == {<<>>, <<"Paragraph">>, <<"Text", "Paragraph">>}

\* Elements met while reading an existing document.
ParsedNodeInputs ==
    {[nodeName |-> "w:br", type |-> "page", clear |-> NoAttr],
     [nodeName |-> "w:br", type |-> NoAttr, clear |-> "all"],
     [nodeName |-> "w:t", type |-> NoAttr, clear |-> NoAttr]}

NoNode == [nodeName |-> "", type |-> NoAttr, clear |-> NoAttr]

NoBreak == [props |-> [type |-> "undefined", clear |-> "undefined"], children |-> <<"#none">>]

\* A stricter reading of `||` that also takes the string "none" for falsy.
BreakNoneIsFalsy(v) == IF v \in {"undefined", "null", "", "none"} THEN "null" ELSE v

\* `this.props.type || null`: undefined, null and '' all become null.
BreakOrNull(v) == IF v \in {"undefined", "null", ""} THEN "null" ELSE v

\* `if (exists($x)) then attribute w:x { $x } else ()`
BreakAttribute(v) == IF v = "null" THEN NoAttr ELSE v

\* Break.toNode
BreakToNode(props, anc) ==
    [nodeName |-> QNS.w \o "br",
     type |-> BreakAttribute(BreakOrNull(props.type)),
     clear |-> BreakAttribute(BreakOrNull(props.clear))]

\* Break.matchesNode
BreakMatchesNode(n) == n.nodeName = "w:br"

\* `./@w:type/string()` inside evaluateXPathToMap: an absent attribute is
\* the empty sequence, which the map hands over as null.
BreakAttributeString(v) == IF v = NoAttr THEN "null" ELSE v

\* Break.fromNode: new Break(props) with no children.
BreakFromNode(n) ==
    [props |-> [type |-> BreakAttributeString(n.type),
                clear |-> BreakAttributeString(n.clear)],
     children |-> <<>>]

BreakIdle ==
    /\ breakProps = [type |-> "undefined", clear |-> "undefined"]
    /\ breakChildren = <<>>
    /\ breakAncestry = <<>>
    /\ breakNode = NoNode
    /\ breakResult = NoBreak
    /\ bpc = "idle"

\* new Break(props), or an element of a document being read.
BreakInit ==
    /\ breakChildren = <<>>
    /\ breakAncestry = <<>>
    /\ breakResult = NoBreak
    /\ \/ /\ breakProps \in BreakPropsInputs
          /\ breakNode = NoNode
          /\ bpc = "built"
       \/ /\ breakProps = [type |-> "undefined", clear |-> "undefined"]
          /\ breakNode \in ParsedNodeInputs
          /\ bpc = "parsed"

BreakOnly == UNCHANGED <<docxVars, flattenVars, xmlFileVars, dotxVars, tblVars, cloneVars>>

\* break.toNode(ancestry)
ToNode(anc) ==
    /\ BreakOnly
    /\ bpc = "built"
    /\ breakNode' = BreakToNode(breakProps, anc)
    /\ breakAncestry' = anc
    /\ bpc' = "encoded"
    /\ UNCHANGED <<breakProps, breakChildren, breakResult>>

\* Break.fromNode(node) on the element toNode returned.
FromNode ==
    /\ BreakOnly
    /\ bpc = "encoded"
    /\ breakResult' = BreakFromNode(breakNode)
    /\ bpc' = "decoded"
    /\ UNCHANGED <<breakProps, breakChildren, breakAncestry, breakNode>>

\* Reading a document: the element is handed to fromNode when matchesNode
\* accepts it.
FromParsedNode ==
    /\ BreakOnly
    /\ bpc = "parsed"
    /\ IF BreakMatchesNode(breakNode)
          THEN breakResult' = BreakFromNode(breakNode) /\ bpc' = "read"
          ELSE breakResult' = breakResult /\ bpc' = "skipped"
    /\ UNCHANGED <<breakProps, breakChildren, breakAncestry, breakNode>>

BreakNext ==
    \/ \E anc \in AncestryInputs : ToNode(anc)
    \/ FromNode
    \/ FromParsedNode

(***************************************************************************)
(* Table properties (properties/table-properties.ts, exercised by          *)
(* table-properties.test.ts).  An optional value is a sequence: <<>> for   *)
(* null, <<x>> for x; an optional string is "null" or the string.  A       *)
(* Length is a whole number of fortieths of a point, the coarsest unit in  *)
(* which an eighth and a twentieth of a point are both whole.              *)
(***************************************************************************)
MaxSz == 3

\* Reading w:sz in half-points instead of eighths of a point.
optAsHalfPoints(n) == 20 * n

\* utilities/length.ts, as the test uses it: opt(8), pt(1), hpt(2), twip(20).
opt(n) == 5 * n

pt(n) == 40 * n

hpt(n) == 20 * n

twip(n) == 2 * n

\* Length.opt, the number written to w:sz.
LengthOpt(len) == len \div 5

Sides == {"top", "left", "bottom", "right", "insideH", "insideV"}

LookFlags == {"firstColumn", "lastColumn", "firstRow", "lastRow", "noHBand", "noVBand"}

Border(type, width, spacing, color) ==
    [type |-> type, width |-> width, spacing |-> spacing, color |-> color]

\* Border widths at the granularity of w:sz.
LengthInputs == {opt(n) : n \in 1..MaxSz} \cup {opt(8), pt(1), hpt(2), twip(20), pt(2)}

BorderInputs ==
    {Border(type, width, spacing, color) :
        type \in {"null", "dashed"},
        width \in {<<>>} \cup {<<len>> : len \in LengthInputs},
        spacing \in {<<>>, <<1>>},
        color \in {"null", "red"}}

\* The borders of the first test's expectation (test lines 24-57).
TestBorders ==
    [top |-> <<Border("null", <<opt(8)>>, <<1>>, "red")>>,
     right |-> <<Border("seattle", <<>>, <<1>>, "red")>>,
     bottom |-> <<Border("peopleHats", <<pt(1)>>, <<>>, "red")>>,
     left |-> <<Border("dashed", <<hpt(2)>>, <<1>>, "null")>>,
     insideH |-> <<Border("heartBalloon", <<twip(20)>>, <<1>>, "red")>>,
     insideV |-> <<>>]

BordersInputs ==
    {<<>>, <<TestBorders>>}
    \cup {<<[s \in Sides |-> IF s = "top" THEN <<b>>
                             ELSE IF s = "insideV" THEN <<>>
                             ELSE <<Border("dashed", <<opt(8)>>, <<>>, "null")>>]>> :
             b \in BorderInputs}

StyleInputs == {"null", "afkicken-van-de-opkikkers"}

WidthInputs ==
    {<<>>,
     <<[length |-> "1200", unit |-> "dxa"]>>,
     <<[length |-> "100%", unit |-> "nil"]>>,
     <<[length |-> "420", unit |-> "nil"]>>}

LookInputs ==
    {<<>>,
     <<[f \in LookFlags |-> TRUE]>>,
     <<[f \in LookFlags |-> f \in {"firstRow", "noVBand"}]>>}

TablePropertiesInputs ==
    [style : StyleInputs, width : WidthInputs, look : LookInputs, borders : BordersInputs]

\* An element w:top .. w:insideV: its attributes, absent ones as NoAttr / <<>>.
BorderElement(val, sz, space, color) ==
    [val |-> val, sz |-> sz, space |-> space, color |-> color]

\* The XML of the first test (test lines 17-35).
TestNode1 ==
    [tblStyle |-> <<[val |-> "afkicken-van-de-opkikkers"]>>,
     tblW |-> <<[val |-> "1200", type |-> "dxa"]>>,
     tblLook |-> <<[f \in LookFlags |-> "1"]>>,
     tblBorders |->
        <<[top |-> <<BorderElement(NoAttr, <<8>>, <<1>>, "red")>>,
           right |-> <<BorderElement("seattle", <<>>, <<1>>, "red")>>,
           bottom |-> <<BorderElement("peopleHats", <<8>>, <<>>, "red")>>,
           left |-> <<BorderElement("dashed", <<8>>, <<1>>, NoAttr)>>,
           insideH |-> <<BorderElement("heartBalloon", <<8>>, <<1>>, "red")>>,
           insideV |-> <<>>]>>]

\* The XML of the second and third tests (test lines 60-80).
TestNodeWidth(val) ==
    [tblStyle |-> <<>>, tblW |-> <<[val |-> val, type |-> "nil"]>>,
     tblLook |-> <<>>, tblBorders |-> <<>>]

\* The test cases: the XML and the object the test expects from it.
TestCases ==
    {[node |-> TestNode1,
      expected |-> [style |-> "afkicken-van-de-opkikkers",
                    width |-> <<[length |-> "1200", unit |-> "dxa"]>>,
                    look |-> <<[f \in LookFlags |-> TRUE]>>,
                    borders |-> <<TestBorders>>]],
     [node |-> TestNodeWidth("100%"),
      expected |-> [style |-> "null", width |-> <<[length |-> "100%", unit |-> "nil"]>>,
                    look |-> <<>>, borders |-> <<>>]],
     [node |-> TestNodeWidth("420"),
      expected |-> [style |-> "null", width |-> <<[length |-> "420", unit |-> "nil"]>>,
                    look |-> <<>>, borders |-> <<>>]]}

\* An optional string to an attribute and back.
StringToAttr(v) == IF v = "null" THEN NoAttr ELSE v

AttrToString(v) == IF v = NoAttr THEN "null" ELSE v

borderToNode(b) ==
    IF b = <<>> THEN <<>>
    ELSE <<BorderElement(StringToAttr(b[1].type),
                         IF b[1].width = <<>> THEN <<>> ELSE <<LengthOpt(b[1].width[1])>>,
                         b[1].spacing,
                         StringToAttr(b[1].color))>>

borderFromNode(e) ==
    IF e = <<>> THEN <<>>
    ELSE <<Border(AttrToString(e[1].val),
                  IF e[1].sz = <<>> THEN <<>> ELSE <<opt(e[1].sz[1])>>,
                  e[1].space,
                  AttrToString(e[1].color))>>

tablePropertiesToNode(p) ==
    [tblStyle |-> IF p.style = "null" THEN <<>> ELSE <<[val |-> p.style]>>,
     tblW |-> IF p.width = <<>> THEN <<>>
              ELSE <<[val |-> p.width[1].length, type |-> p.width[1].unit]>>,
     tblLook |-> IF p.look = <<>> THEN <<>>
                 ELSE <<[f \in LookFlags |-> IF p.look[1][f] THEN "1" ELSE "0"]>>,
     tblBorders |-> IF p.borders = <<>> THEN <<>>
                    ELSE <<[s \in Sides |-> borderToNode(p.borders[1][s])]>>]

tablePropertiesFromNode(n) ==
    [style |-> IF n.tblStyle = <<>> THEN "null" ELSE n.tblStyle[1].val,
     width |-> IF n.tblW = <<>> THEN <<>>
               ELSE <<[length |-> n.tblW[1].val, unit |-> n.tblW[1].type]>>,
     look |-> IF n.tblLook = <<>> THEN <<>>
              ELSE <<[f \in LookFlags |-> n.tblLook[1][f] \in {"1", "true", "on"}]>>,
     borders |-> IF n.tblBorders = <<>> THEN <<>>
                 ELSE <<[s \in Sides |-> borderFromNode(n.tblBorders[1][s])]>>]

NoTableNode == [tblStyle |-> <<>>, tblW |-> <<>>, tblLook |-> <<>>, tblBorders |-> <<>>]

NoTableProperties == [style |-> "null", width |-> <<>>, look |-> <<>>, borders |-> <<>>]

TableIdle ==
    /\ tblProps = NoTableProperties
    /\ tblNode = NoTableNode
    /\ tblResult = NoTableProperties
    /\ tblPc = "idle"

\* createXmlRoundRobinTest: either an object to encode, or a test's XML
\* together with the object the test expects from it.
TableInit ==
    /\ tblResult = NoTableProperties
    /\ \/ /\ tblProps \in TablePropertiesInputs
          /\ tblNode = NoTableNode
          /\ tblPc = "object"
       \/ \E t \in TestCases :
             /\ tblProps = t.expected
             /\ tblNode = t.node
             /\ tblPc = "xml"

TableOnly == UNCHANGED <<docxVars, flattenVars, xmlFileVars, dotxVars, breakVars, cloneVars>>

\* tablePropertiesToNode(p)
TableToNode ==
    /\ TableOnly
    /\ tblPc = "object"
    /\ tblNode' = tablePropertiesToNode(tblProps)
    /\ tblPc' = "encoded"
    /\ UNCHANGED <<tblProps, tblResult>>

\* tablePropertiesFromNode(node) on the element just written.
TableFromNode ==
    /\ TableOnly
    /\ tblPc = "encoded"
    /\ tblResult' = tablePropertiesFromNode(tblNode)
    /\ tblPc' = "decoded"
    /\ UNCHANGED <<tblProps, tblNode>>

\* tablePropertiesFromNode(node) on a test's XML.
TableFromXml ==
    /\ TableOnly
    /\ tblPc = "xml"
    /\ tblResult' = tablePropertiesFromNode(tblNode)
    /\ tblPc' = "read"
    /\ UNCHANGED <<tblProps, tblNode>>

TableNext ==
    \/ TableToNode
    \/ TableFromNode
    \/ TableFromXml

(***************************************************************************)
(* Docx.clone.  Two instances can be alive, the original and its clone.    *)
(* An instance holds references: to its GenericRenderer and to its Parts   *)
(* (content types, relationships, office document).  rendererHeap and      *)
(* partsHeap give what each reference points at, so that two instances     *)
(* holding one reference see each other's changes.                         *)
(***************************************************************************)
InstanceNames == {"original", "clone"}

Refs == 1..2

NoRef == 0

NoParts ==
    [contentTypes |-> {}, relationships |-> NoEdges, _officeDocument |-> "null",
     children |-> <<>>, styles |-> {}]

NoInstance == [live |-> FALSE, renderer |-> NoRef, parts |-> NoRef]

FreshRef(used) == CHOOSE r \in Refs : r \notin used

\* new Docx(contentTypes, relationships): the Parts of the new instance.
ConstructedParts(a) ==
    [contentTypes |-> a.ct, relationships |-> ConstructorRelationships(a.rels),
     _officeDocument |-> "null", children |-> a.children, styles |-> a.styles]

\* Docx.fromJsx: the constructor, then this.document.set(roots).
JsxParts(roots) ==
    LET built == ConstructorRelationships(NoEdges)
    IN  [contentTypes |-> {},
         relationships |-> DocumentRelationships("null", built),
         _officeDocument |-> DocumentValue("null", built),
         children |-> OfficeDocumentSet(roots),
         styles |-> {}]

\* The originals: from nothing, from JSX, from either archive.
OriginalInputs ==
    {ConstructedParts([ct |-> {}, rels |-> NoEdges, children |-> <<>>, styles |-> {}]),
     JsxParts(<<"Sect">>), JsxParts(<<"ParaImg">>)}
    \cup {ConstructedParts(a) : a \in ArchiveInputs}

\* Docx.toArchive(): what it leaves of the instance's Parts.
ToArchiveParts(b) ==
    LET doc == DocumentValue(b._officeDocument, b.relationships)
        rels1 == DocumentRelationships(b._officeDocument, b.relationships)
        rels2 == [rels1 EXCEPT ![doc] =
                     EnsureRelationshipEdges(@, RelationshipType.styles, "stylesPart")]
        visited == Walk(b.children)
        rels3 == [rels2 EXCEPT ![doc] = WalkEnsureImages(@, visited)]
        passed == SelectSeq(GetRelated(rels3, "root"), OverrideCandidate)
    IN  [contentTypes |-> AddOverrides(b.contentTypes, passed),
         relationships |-> rels3,
         _officeDocument |-> doc,
         children |-> b.children,
         styles |-> WalkEnsureStyles(b.styles, visited)]

\* The archive toArchive returns: the serialised Parts.
ArchiveOfParts(b) ==
    [ct |-> b.contentTypes, rels |-> b.relationships,
     children |-> b.children, styles |-> b.styles]

\* A clone that takes over the original's renderer.
RendererShared(existing) == existing

\* private readonly _renderer = new GenericRenderer(): one per instance.
RendererOfNewDocx(existing) == FreshRef({existing})

\* GenericRenderer.merge(other): the other's rules are added after its own.
Merge(own, other) == own \o other

CloneOp(name, on) == [op |-> name, on |-> on]

CloneIdle ==
    /\ instances = [i \in InstanceNames |-> NoInstance]
    /\ rendererHeap = [r \in Refs |-> <<>>]
    /\ partsHeap = [r \in Refs |-> NoParts]
    /\ cloneOp = CloneOp("none", "none")

\* One Docx, just constructed, without rules.
CloneInit ==
    /\ instances = [i \in InstanceNames |->
                      IF i = "original"
                      THEN [live |-> TRUE, renderer |-> 1, parts |-> 1]
                      ELSE NoInstance]
    /\ rendererHeap = [r \in Refs |-> <<>>]
    /\ \E b \in OriginalInputs : partsHeap = [r \in Refs |-> IF r = 1 THEN b ELSE NoParts]
    /\ cloneOp = CloneOp("none", "none")

CloneOnly == UNCHANGED <<docxVars, flattenVars, xmlFileVars, dotxVars, breakVars, tblVars>>

\* withXmlRule on either instance.
InstanceWithXmlRule(i, test) ==
    /\ CloneOnly
    /\ instances[i].live
    /\ Len(rendererHeap[instances[i].renderer]) < MaxRules
    /\ rendererHeap' = [rendererHeap EXCEPT ![instances[i].renderer] = Append(@, test)]
    /\ cloneOp' = CloneOp("withXmlRule", i)
    /\ UNCHANGED <<instances, partsHeap>>

\* fromXml on either instance: the document body is replaced.
InstanceFromXml(i, result) ==
    /\ CloneOnly
    /\ instances[i].live
    /\ ~NoRulesConfigured(rendererHeap[instances[i].renderer])
    /\ LET b == partsHeap[instances[i].parts]
       IN  partsHeap' = [partsHeap EXCEPT ![instances[i].parts] =
              [b EXCEPT
                 !._officeDocument = DocumentValue(b._officeDocument, b.relationships),
                 !.relationships = DocumentRelationships(b._officeDocument, b.relationships),
                 !.children = OfficeDocumentSet(ComponentNamesOf(FlattenAst(result)))]]
    /\ cloneOp' = CloneOp("fromXml", i)
    /\ UNCHANGED <<instances, rendererHeap>>

\* original.clone(): Docx.fromArchive(this.toArchive()), then
\* docx._renderer.merge(this._renderer).
Clone ==
    /\ CloneOnly
    /\ instances["original"].live
    /\ ~instances["clone"].live
    /\ LET o == instances["original"]
           archived == ToArchiveParts(partsHeap[o.parts])
           newParts == FreshRef({o.parts})
           newRenderer == RendererOfNewDocx(o.renderer)
       IN  /\ instances' = [instances EXCEPT !["clone"] =
                              [live |-> TRUE, renderer |-> newRenderer, parts |-> newParts]]
           /\ partsHeap' = [partsHeap EXCEPT
                              ![o.parts] = archived,
                              ![newParts] = ConstructedParts(ArchiveOfParts(archived))]
           /\ rendererHeap' = [rendererHeap EXCEPT
                                 ![newRenderer] = Merge(@, rendererHeap[o.renderer])]
    /\ cloneOp' = CloneOp("clone", "original")

CloneNext ==
    \/ \E i \in InstanceNames, test \in TestInputs : InstanceWithXmlRule(i, test)
    \/ \E i \in InstanceNames, result \in AstInputs : InstanceFromXml(i, result)
    \/ Clone

(***************************************************************************)
(* Specifications: one per component, the others at rest.                  *)
(***************************************************************************)
Init ==
    DocxInit /\ FlattenIdle /\ XmlFileIdle /\ DotxIdle /\ BreakIdle /\ TableIdle
    /\ CloneIdle

Next == DocxNext

Spec == Init /\ [][Next]_vars

InitFlatten ==
    DocxInit /\ FlattenInit /\ XmlFileIdle /\ DotxIdle /\ BreakIdle /\ TableIdle
    /\ CloneIdle

SpecFlatten == InitFlatten /\ [][FlattenNext]_vars

InitXmlFile ==
    DocxInit /\ FlattenIdle /\ XmlFileIdle /\ DotxIdle /\ BreakIdle /\ TableIdle
    /\ CloneIdle

SpecXmlFile == InitXmlFile /\ [][XmlFileNext]_vars

InitDotx ==
    DocxInit /\ FlattenIdle /\ XmlFileIdle /\ DotxInit /\ BreakIdle /\ TableIdle
    /\ CloneIdle

SpecDotx == InitDotx /\ [][DotxNext]_vars

InitBreak ==
    DocxInit /\ FlattenIdle /\ XmlFileIdle /\ DotxIdle /\ BreakInit /\ TableIdle
    /\ CloneIdle

SpecBreak == InitBreak /\ [][BreakNext]_vars

InitTable ==
    DocxInit /\ FlattenIdle /\ XmlFileIdle /\ DotxIdle /\ BreakIdle /\ TableInit
    /\ CloneIdle

SpecTable == InitTable /\ [][TableNext]_vars

InitClone ==
    DocxInit /\ FlattenIdle /\ XmlFileIdle /\ DotxIdle /\ BreakIdle /\ TableIdle
    /\ CloneInit

SpecClone == InitClone /\ [][CloneNext]_vars

(***************************************************************************)
(* Properties of Docx.                                                     *)
(***************************************************************************)
IsPrefix(s, t) == Len(s) <= Len(t) /\ \A i \in 1..Len(s) : s[i] = t[i]

\* Every component of the body, at any depth (a closure, not the walk).
RECURSIVE ComponentClosure(_)
ComponentClosure(S) ==
    LET T == S \cup UNION {Range(Comp[c].kids) \cap ComponentNames : c \in S}
    IN  IF T = S THEN S ELSE ComponentClosure(T)

BodyComponents == ComponentClosure(Range(children) \cap ComponentNames)

BodyImages == {Comp[c].part : c \in {d \in BodyComponents : Comp[d].t = "Image"}}

BodyStyles == {Comp[c].style : c \in {d \in BodyComponents : Comp[d].style # ""}}

Targets(edges) == {edges[i].target : i \in 1..Len(edges)}

OverrideOf(p) == <<PartTable[p].location, PartTable[p].contentType>>

\* A toArchive call is running, or was the last call to return.
InToArchive == tpc # 0 \/ lastOp.op = "toArchive"

Done(s) == InToArchive /\ s \in Range(steps)

NumOfficeDocuments(rels) ==
    Cardinality({i \in 1..Len(rels["root"]) :
                    rels["root"][i].type = RelationshipType.officeDocument})

\* C1: toArchive runs pre-pass, relationships, overrides, content types in that
\* order, so every style and image relationship the pre-pass discovers (at any
\* depth of the body) is in the relationships written to the archive, among the
\* Parts the overrides are collected from, and in the content types written.
C1_AssemblyOrder ==
    /\ IsPrefix(steps, <<"prepass", "relationships", "overrides", "contentTypes">>)
    /\ Done("relationships") =>
          /\ BodyStyles \subseteq styles
          /\ "stylesPart" \in Targets(archive.rels[_officeDocument])
          /\ BodyImages \subseteq Targets(archive.rels[_officeDocument])
          /\ \A p \in BodyImages \cup {"stylesPart"} : PartTable[p].location \in archive.paths
    /\ Done("overrides") =>
          \A p \in BodyImages \cup {"stylesPart"} :
              p \in Range(collected) /\ OverrideOf(p) \in contentTypes
    /\ Done("contentTypes") =>
          /\ archive.ctWritten
          /\ \A p \in BodyImages \cup {"stylesPart"} : OverrideOf(p) \in archive.ct

\* C1 witness: toArchive has returned for a body with a styled paragraph and an
\* image nested three levels deep.
C1_Witness ==
    /\ tpc = 0 /\ lastOp.op = "toArchive"
    /\ children = <<"Sect">>
    /\ "img1" \in BodyImages /\ "Heading1" \in BodyStyles
    /\ archive.ctWritten

\* C2: after toArchive returns, every Part related to the root relationships
\* that is no Relationships index has the override location -> contentType,
\* and no Relationships index was registered by the call.
C2_OverridesComplete ==
    (tpc = 0 /\ lastOp.op = "toArchive") =>
        /\ \A p \in Range(GetRelated(relationships, "root")) :
              PartTable[p].cls # "Relationships" =>
                  /\ OverrideOf(p) \in contentTypes
                  /\ \A o \in contentTypes :
                        o[1] = PartTable[p].location => o[2] = PartTable[p].contentType
        /\ \A p \in Range(collected) : PartTable[p].cls # "Relationships"

\* C2 witness: toArchive has returned, an image and the office document were
\* registered, and two Relationships indexes are among the related Parts.
C2_Witness ==
    /\ tpc = 0 /\ lastOp.op = "toArchive"
    /\ {"img1", "img2", _officeDocument} \subseteq Range(collected)
    /\ {"rootRels", RelsPartOf[_officeDocument]} \subseteq Range(GetRelated(relationships, "root"))

\* C3 (as claimed): a build whose forest has 0 or 2+ roots fails with an error
\* naming the count, from fromJsx (no document results) and from fromXml.
C3_RootCountFatal ==
    /\ (lastOp.op = "fromJsx" /\ lastOp.n # 1) =>
          (err = RootCountError(lastOp.n) /\ docx = "none")
    /\ (lastOp.op = "fromXml" /\ lastOp.rendered /\ lastOp.n # 1) =>
          err = RootCountError(lastOp.n)

\* C4: fromXml with no rule registered throws before rendering and leaves the
\* body, the relationships and the cached document as they were; with a rule
\* registered the error is never raised.
C4_NoRulesFatal ==
    /\ [](err = NoRulesError => (lastOp.op = "fromXml" /\ Len(_renderer) = 0))
    /\ [][(Len(_renderer) = 0 /\ lastOp'.op = "fromXml" /\ lastOp' # lastOp) =>
            /\ err' = NoRulesError
            /\ ~lastOp'.rendered
            /\ children' = children
            /\ styles' = styles
            /\ relationships' = relationships
            /\ _officeDocument' = _officeDocument]_vars

\* C4 witness: fromXml threw on an instance read from an archive, which has a
\* body and relationships to leave alone.
C4_Witness ==
    /\ err = NoRulesError
    /\ lastOp.op = "fromXml"
    /\ children = <<"ParaS">>
    /\ Len(relationships["docArc"]) > 0

\* C9: the constructor adds an officeDocument edge only when there is none, and
\* afterwards no call adds another; every access to the document getter returns
\* the same OfficeDocument, the target of that edge.
C9_OfficeDocumentOnce ==
    /\ [](docx = "live" =>
            /\ NumOfficeDocuments(relationships) = 1
            /\ odAdded = (IF origin = "withDocument" THEN 0 ELSE 1)
            /\ lastDoc # "null" =>
                  /\ lastDoc = _officeDocument
                  /\ lastDoc = FirstOfType(relationships["root"],
                                           RelationshipType.officeDocument).target)
    /\ [][docx = "live" =>
            /\ NumOfficeDocuments(relationships') = NumOfficeDocuments(relationships)
            /\ odAdded' = odAdded
            /\ lastDoc # "null" => lastDoc' = lastDoc]_vars

\* C9 witness: an instance read from an archive that had an office document has
\* been through withXmlRule, fromXml and toArchive, and the getter returns the
\* archive's document.
C9_Witness ==
    /\ docx = "live" /\ origin = "withDocument"
    /\ Len(_renderer) > 0
    /\ lastOp.op = "toArchive" /\ tpc = 0
    /\ \E i \in 1..Len(children) : children[i] = "ParaImg"
    /\ lastDoc = "docArc"

(***************************************************************************)
(* Properties of the reducer.                                              *)
(***************************************************************************)
\* The leaves of a rule result, left to right.
RECURSIVE Fringe(_)
RECURSIVE FringeOfMembers(_, _)
Fringe(node) == IF node.k = "array" THEN FringeOfMembers(node.c, 1) ELSE <<node>>

FringeOfMembers(members, i) ==
    IF i > Len(members) THEN <<>>
    ELSE Fringe(members[i]) \o FringeOfMembers(members, i + 1)

IsComponentNode(node) == node.k = "component"

IsNotNull(node) == node.k # "null"

HasNestedArray(node) ==
    node.k = "array" /\ \E i \in 1..Len(node.c) : node.c[i].k = "array"

\* C5 (as claimed): the flattened result is the text and component values of
\* the render result in their order, null dropped, nested sequences spliced;
\* [null, "a", [["b"], null, "c"]] flattens to ["a", "b", "c"].
C5_FlattenKeepsText ==
    fdone =>
        /\ flat = SelectSeq(Fringe(ast), IsNotNull)
        /\ ast = ExampleAst => flat = <<Str("a"), Str("b"), Str("c")>>

\* C5 (amended): the flattened result is the component values of the render
\* result in their order; null and plain text are dropped, nested sequences
\* are spliced in place; [null, "a", [["b"], null, "c"]] flattens to [].
C5_FlattenComponents ==
    fdone =>
        /\ flat = SelectSeq(Fringe(ast), IsComponentNode)
        /\ ast = ExampleAst => flat = <<>>

\* C5 witness: a result with a nested array, a null and a text was flattened
\* to two different components.
C5_Witness ==
    /\ fdone
    /\ HasNestedArray(ast)
    /\ \E i \in 1..Len(Fringe(ast)) : Fringe(ast)[i].k = "null"
    /\ \E i \in 1..Len(Fringe(ast)) : Fringe(ast)[i].k = "string"
    /\ Len(flat) = 2 /\ flat[1] # flat[2]

(***************************************************************************)
(* Properties of XmlFile.addToArchive.                                     *)
(***************************************************************************)
\* C7 (as claimed): the promise addToArchive returned resolves only when the
\* write of every member of getRelated() is done, and once every write has
\* ended with one of them failed, a settled promise is a rejected one.
C7_AggregateWrite ==
    /\ promise = "resolved" => \A i \in 1..Len(related) : write[i] = "done"
    /\ (/\ promise \in {"resolved", "rejected"}
        /\ \A i \in 1..Len(related) : write[i] \in {"done", "failed"}
        /\ \E i \in 1..Len(related) : write[i] = "failed") => promise = "rejected"

\* C8 (as claimed): after addToArchive the archive holds an entry for a member
\* of getRelated() only if that member's isEmpty() is false.
C8_EmptyNotWritten ==
    promise = "resolved" => \A i \in entries : ~related[i].empty

(***************************************************************************)
(* Properties of DotxTemplate.style.                                       *)
(***************************************************************************)
\* C10: style(name) before init() has completed fails with DXE010; after it,
\* with a name that is not available, fails with DXE011 and lists the
\* available names; neither adds to the styles map. For an available name it
\* returns a style of that name, the one the map held or holds from then on.
C10_StyleErrors ==
    /\ [][styleResult' # styleResult =>
            /\ availableStyleNames.isNull =>
                  /\ styleResult'.kind = "error" /\ styleResult'.code = "DXE010"
                  /\ templateStyles' = templateStyles
            /\ (/\ ~availableStyleNames.isNull
                /\ styleResult'.name \notin Range(availableStyleNames.names)) =>
                  /\ styleResult'.kind = "error" /\ styleResult'.code = "DXE011"
                  /\ styleResult'.names = availableStyleNames.names
                  /\ templateStyles' = templateStyles
            /\ (/\ ~availableStyleNames.isNull
                /\ styleResult'.name \in Range(availableStyleNames.names)) =>
                  /\ styleResult'.kind = "style"
                  /\ [name |-> styleResult'.name, inst |-> styleResult'.inst]
                        \in templateStyles'
                  /\ \A e \in templateStyles :
                        e.name = styleResult'.name => e.inst = styleResult'.inst]_vars
    /\ [][templateStyles \subseteq templateStyles']_vars
    /\ [](\A e, f \in templateStyles : (e.name = f.name) = (e.inst = f.inst))

\* C10 witness: with one style in the map, style() was called with a name the
\* template does not have and failed with DXE011, after an init() call failed
\* and another completed.
C10_Witness ==
    /\ styleResult.kind = "error" /\ styleResult.code = "DXE011"
    /\ styleResult.names = <<"Normal", "Title">>
    /\ styleResult.name = "Custom"
    /\ templateStyles # {}
    /\ \E c \in 1..Len(calls) : calls[c] = "failedRead"

(***************************************************************************)
(* C11: for every Break built with type in {page, column, textWrapping,    *)
(* absent} and clear in {left, right, all, none, absent}, fromNode of the  *)
(* element toNode returns is an equivalent Break (same type and clear,     *)
(* absent and null alike, no children), that element satisfies             *)
(* matchesNode, and toNode leaves the Break's props and children as they   *)
(* were.                                                                   *)
(***************************************************************************)
\* Absent and null are one value.
BreakNullish(v) == IF v = "undefined" THEN "null" ELSE v

BreakEquivalent(a, b) ==
    /\ BreakNullish(a.props.type) = BreakNullish(b.props.type)
    /\ BreakNullish(a.props.clear) = BreakNullish(b.props.clear)
    /\ a.children = b.children

TableDecoded == tblPc \in {"decoded", "read"}

AbsentIsNull ==
    /\ tblNode.tblStyle = <<>> => tblResult.style = "null"
    /\ tblNode.tblW = <<>> => tblResult.width = <<>>
    /\ tblNode.tblLook = <<>> => tblResult.look = <<>>
    /\ tblNode.tblBorders = <<>> => tblResult.borders = <<>>
    /\ tblNode.tblBorders # <<>> =>
          \A s \in Sides :
             LET e == tblNode.tblBorders[1][s]
                 b == tblResult.borders[1][s]
             IN  /\ e = <<>> => b = <<>>
                 /\ e # <<>> =>
                       /\ b # <<>>
                       /\ e[1].val = NoAttr => b[1].type = "null"
                       /\ e[1].sz = <<>> => b[1].width = <<>>
                       /\ e[1].space = <<>> => b[1].spacing = <<>>
                       /\ e[1].color = NoAttr => b[1].color = "null"

SzInEighths ==
    tblNode.tblBorders # <<>> =>
       \A s \in Sides :
          LET e == tblNode.tblBorders[1][s]
              b == tblResult.borders[1][s]
          IN  (e # <<>> /\ e[1].sz = <<8>>) =>
                 /\ b[1].width = <<pt(1)>>
                 /\ b[1].width = <<hpt(2)>>
                 /\ b[1].width = <<twip(20)>>

RulesOf(i) == rendererHeap[instances[i].renderer]

PartsOf(i) == partsHeap[instances[i].parts]

Other(i) == IF i = "original" THEN "clone" ELSE "original"

BothLive == instances["original"].live /\ instances["clone"].live

C13_CloneIndependent ==
    /\ [](BothLive =>
             /\ instances["clone"].renderer # instances["original"].renderer
             /\ instances["clone"].parts # instances["original"].parts)
    /\ [][cloneOp'.op = "clone" =>
             /\ RulesOf("clone")' = RulesOf("original")
             /\ RulesOf("original")' = RulesOf("original")
             /\ ArchiveOfParts(PartsOf("clone")') = ArchiveOfParts(PartsOf("original")')]_vars
    /\ [][\A i \in InstanceNames :
             (BothLive /\ cloneOp'.on = i /\ cloneOp'.op \in {"withXmlRule", "fromXml"}) =>
                /\ RulesOf(Other(i))' = RulesOf(Other(i))
                /\ PartsOf(Other(i))' = PartsOf(Other(i))]_vars

\* After the clone was made with one rule, a rule was added to the clone and
\* the original's body was replaced: the two now differ in rules and body.
C13_Witness ==
    /\ BothLive
    /\ Len(RulesOf("original")) = 1
    /\ Len(RulesOf("clone")) = 2
    /\ RulesOf("clone")[1] = RulesOf("original")[1]
    /\ PartsOf("original").children = <<"ParaS", "ParaImg">>
    /\ PartsOf("clone").children = <<"Sect">>
    /\ cloneOp = CloneOp("fromXml", "original")

(***************************************************************************)
(* C14: on one DotxTemplate, under every interleaving of init()/file()     *)
(* calls, the archive file is read again only if every earlier read        *)
(* failed: no read is issued while another is pending or after one has     *)
(* succeeded; every access after a successful read uses the cached         *)
(* archive; and a failed read leaves the cache empty and surfaces the      *)
(* DXE004 error.                                                           *)
(***************************************************************************)
PendingReads == {c \in 1..Len(calls) : calls[c] = "reading"}

C14_ReadOnlyAfterFailure ==
    /\ [][reads' > reads => PendingReads = {} /\ _zip = "null"]_vars
    /\ [][(_zip # "null" /\ Len(calls') > Len(calls)) =>
             calls'[Len(calls')] = "ready" /\ reads' = reads]_vars
    /\ [][\A c \in 1..Len(calls) :
             (calls[c] = "reading" /\ calls'[c] # "reading") =>
                \/ calls'[c] = "ready" /\ _zip' # "null"
                \/ calls'[c] = "failedRead" /\ _zip' = "null"]_vars

====
